---- MODULE Spec2Model ----
(***************************************************************************)
(* A model of examples/simple_mcp_server.py: the line-oriented transport   *)
(* loop SimpleMCPServer.run, the dispatcher handle_request / call_tool and *)
(* the five tool handlers, together with the part of the host they touch   *)
(* (one file, one directory, and the descriptors 0 and 1 of the standard   *)
(* streams).                                                               *)
(***************************************************************************)
EXTENDS Integers, Sequences, FiniteSets, TLC

(***************************************************************************)
(* Bounds of the model.                                                    *)
(***************************************************************************)
\* input lines fed to run() before the stream ends
MaxLines == 3
\* length of a calculate expression
MaxExprLen == 2
\* iterations of the loop that find the descriptor of stdin closed
MaxSpurious == 1

(***************************************************************************)
(* JSON values as json.loads builds them.  A value is a record with a tag  *)
(* t and a payload v.  A string is a sequence of tokens: one token per     *)
(* character where the characters matter (text, expression, content), one  *)
(* token for a whole word elsewhere; the empty string is <<>>.  A mapping  *)
(* is a record of values in which Absent marks a key it does not hold.     *)
(***************************************************************************)
S(x) == [t |-> "str", v |-> x]
Lit(s) == S(<<s>>)
N(n) == [t |-> "int", v |-> n]
NullV == [t |-> "NoneType", v |-> 0]
L == [t |-> "list", v |-> 0]
Obj(m) == [t |-> "dict", v |-> m]
Absent == [t |-> "absent", v |-> 0]
EmptyObj == Obj([k \in {} |-> Absent])

\* dict.get(k, d)
Get(m, k, d) ==
    IF k \in DOMAIN m.v /\ m.v[k].t # "absent" THEN m.v[k] ELSE d

\* x == "literal": values of different Python types are never equal
PyEq(x, lit) == x.t = "str" /\ x.v = <<lit>>

\* str(x), as an f-string renders it
PyStr(x) ==
    CASE x.t = "str" -> x.v
      [] x.t = "int" -> <<ToString(x.v)>>
      [] x.t = "NoneType" -> <<"None">>
      [] x.t = "float" -> <<"nan">>
      [] x.t = "list" -> <<"[...]">>
      [] OTHER -> <<"{...}">>

\* a slip: "if custom_format is not None" for "if custom_format"
Truthy_NotNone(x) == x.t # "NoneType"

\* bool(x)
Truthy(x) ==
    CASE x.t = "str" -> x.v # <<>>
      [] x.t = "int" -> x.v # 0
      [] x.t = "NoneType" -> FALSE
      [] OTHER -> TRUE

\* hash(x) is defined: lists and dicts are unhashable
Hashable(x) == x.t \notin {"list", "dict"}

\* the message of the AttributeError of x.a
NoAttribute(x, a) == "'" \o x.t \o "' object has no attribute '" \o a \o "'"

(***************************************************************************)
(* Responses.  The text of a response is a JSON value, a string in every   *)
(* path but one (text_transform reverse of a list).                        *)
(***************************************************************************)
TextItem(val) == [type |-> "text", text |-> val]
\* a slip: the success return copied from an error return, flag included
OkVal_FlaggedError(val) == [content |-> <<TextItem(val)>>, isError |-> TRUE]
OkVal(val) == [content |-> <<TextItem(val)>>]
Ok(tokens) == OkVal(S(tokens))
Err(tokens) == [content |-> <<TextItem(S(tokens))>>, isError |-> TRUE]
NoResponse == [none |-> TRUE]

IsErr(r) == "isError" \in DOMAIN r /\ r.isError

\* What a coroutine hands back: a response, or an exception on its way up,
\* with the host as it leaves it (w).  evaluated: eval() was called; tool: the
\* handler call_tool invoked; hraised: that handler raised.
Return(resp, w) ==
    [raised |-> FALSE, msg |-> "", response |-> resp, w |-> w,
     evaluated |-> FALSE, tool |-> "none", hraised |-> FALSE]
Raise(m, w) ==
    [raised |-> TRUE, msg |-> m, response |-> NoResponse, w |-> w,
     evaluated |-> FALSE, tool |-> "none", hraised |-> FALSE]

(***************************************************************************)
(* text_transform                                                          *)
(***************************************************************************)
UpperChar(c) == CASE c = "a" -> "A" [] c = "b" -> "B" [] OTHER -> c
LowerChar(c) == CASE c = "A" -> "a" [] c = "B" -> "b" [] OTHER -> c
IsLetter(c) == c \in {"a", "b", "A", "B"}

Upper(s) == [i \in 1..Len(s) |-> UpperChar(s[i])]
Lower(s) == [i \in 1..Len(s) |-> LowerChar(s[i])]
Reverse(s) == [i \in 1..Len(s) |-> s[Len(s) + 1 - i]]
Capitalize(s) ==
    [i \in 1..Len(s) |-> IF i = 1 THEN UpperChar(s[i]) ELSE LowerChar(s[i])]
Title(s) ==
    [i \in 1..Len(s) |->
        IF i = 1 \/ ~IsLetter(s[i - 1]) THEN UpperChar(s[i]) ELSE LowerChar(s[i])]
\* len(text.split())
WordCount(s) ==
    Cardinality({i \in 1..Len(s) : s[i] # " " /\ (i = 1 \/ s[i - 1] = " ")})
\* len(text.replace(' ', ''))
NonSpaceCount(s) == Cardinality({i \in 1..Len(s) : s[i] # " "})

text_transform(arguments, w) ==
    IF arguments.t # "dict" THEN Raise(NoAttribute(arguments, "get"), w)
    ELSE
    LET text == Get(arguments, "text", S(<<>>))
        operation == Get(arguments, "operation", S(<<>>))
        str == text.t = "str"
    IN  CASE PyEq(operation, "uppercase") ->
               IF str THEN Return(Ok(Upper(text.v)), w)
               ELSE Raise(NoAttribute(text, "upper"), w)
          [] PyEq(operation, "lowercase") ->
               IF str THEN Return(Ok(Lower(text.v)), w)
               ELSE Raise(NoAttribute(text, "lower"), w)
          [] PyEq(operation, "reverse") ->
               IF str THEN Return(Ok(Reverse(text.v)), w)
               ELSE IF text.t = "list" THEN Return(OkVal(L), w)
               ELSE Raise("'" \o text.t \o "' object is not subscriptable", w)
          [] PyEq(operation, "capitalize") ->
               IF str THEN Return(Ok(Capitalize(text.v)), w)
               ELSE Raise(NoAttribute(text, "capitalize"), w)
          [] PyEq(operation, "title") ->
               IF str THEN Return(Ok(Title(text.v)), w)
               ELSE Raise(NoAttribute(text, "title"), w)
          [] PyEq(operation, "count_words") ->
               IF str
               THEN Return(Ok(<<"Word count: ", ToString(WordCount(text.v))>>), w)
               ELSE Raise(NoAttribute(text, "split"), w)
          [] PyEq(operation, "count_chars") ->
               IF str
               THEN Return(Ok(<<"Character count: ", ToString(Len(text.v)),
                                " (including spaces), ",
                                ToString(NonSpaceCount(text.v)),
                                " (excluding spaces)">>), w)
               ELSE IF text.t = "list" THEN Raise(NoAttribute(text, "replace"), w)
               ELSE Raise("object of type '" \o text.t \o "' has no len()", w)
          [] OTHER ->
               Return(Err(<<"Unknown operation: ">> \o PyStr(operation)), w)

(***************************************************************************)
(* calculate                                                               *)
(***************************************************************************)
Digits == {"0", "1", "2", "3", "4", "5", "6", "7", "8", "9"}
\* \s
Whitespace == {" ", "\t", "\n", "\r"}
\* the character class [0-9+\-*/().\s]
RegexClass == Digits \cup {"+", "-", "*", "/", "(", ")", "."} \cup Whitespace

\* a slip: the pattern without its end anchor, r'^[0-9+\-*/().\s]+'
re_match_NoEndAnchor(expression) ==
    Len(expression) >= 1 /\ expression[1] \in RegexClass

\* re.match(r'^[0-9+\-*/().\s]+$', expression)
re_match(expression) ==
    /\ Len(expression) >= 1
    /\ \A i \in 1..Len(expression) : expression[i] \in RegexClass

InvalidExpression ==
    "Invalid expression: only numbers and basic operators (+, -, *, /, parentheses) are allowed"

\* env.evalOk: eval(expression) returns a value; otherwise it raises
calculate(arguments, w, env) ==
    IF arguments.t # "dict" THEN Raise(NoAttribute(arguments, "get"), w)
    ELSE
    LET expression == Get(arguments, "expression", S(<<>>))
    IN  IF expression.t # "str"
        THEN Raise("expected string or bytes-like object, got '"
                   \o expression.t \o "'", w)
        ELSE IF ~re_match(expression.v)
        THEN Return(Err(<<InvalidExpression>>), w)
        ELSE IF env.evalOk
        THEN [Return(Ok(expression.v \o <<" = ", "<result>">>), w)
                EXCEPT !.evaluated = TRUE]
        ELSE [Return(Err(<<"Error calculating '">> \o expression.v
                         \o <<"': ", "<message>">>), w)
                EXCEPT !.evaluated = TRUE]

(***************************************************************************)
(* system_info                                                             *)
(***************************************************************************)
HostQueries == {"platform", "cpu", "disk", "network", "uptime"}

\* env.hostFails: a call into platform, os or datetime raises
system_info(arguments, w, env) ==
    IF arguments.t # "dict" THEN Raise(NoAttribute(arguments, "get"), w)
    ELSE
    LET info_type == Get(arguments, "info_type", S(<<>>))
        info(text) ==
            IF env.hostFails /\ info_type.v[1] \in HostQueries
            THEN Return(Err(<<"Error getting system info: ", "<message>">>), w)
            ELSE Return(Ok(<<text>>), w)
    IN  CASE PyEq(info_type, "platform") ->
               info("Platform: <system> <release>\nArchitecture: <machine>\nProcessor: <processor>")
          [] PyEq(info_type, "cpu") ->
               info("CPU Count: <count>\nProcessor: <processor>")
          [] PyEq(info_type, "memory") ->
               info("Memory information requires psutil library")
          [] PyEq(info_type, "disk") ->
               info("Current directory: <cwd>\nHome directory: <home>")
          [] PyEq(info_type, "network") -> info("Hostname: <node>")
          [] PyEq(info_type, "processes") ->
               info("Process information requires psutil library")
          [] PyEq(info_type, "uptime") -> info("Python started at: <now>")
          [] OTHER ->
               Return(Err(<<"Unknown info type: ">> \o PyStr(info_type)), w)

(***************************************************************************)
(* The host as file_operations sees it.  w.fs is the file named "f" (it    *)
(* may not exist), "d" is a directory, no other name exists; the integers  *)
(* 0 and 1, which os.path and open() take as file descriptors, are the     *)
(* pipes of stdin and stdout while w.stdin and w.stdout say they are open. *)
(* w.injected: text other than a response line was written to stdout.      *)
(* w.tools is self.tools, carried along with the host.                     *)
(***************************************************************************)
IsFd(path, n) == path.t = "int" /\ path.v = n
FdOpen(path, w) == (IsFd(path, 0) /\ w.stdin) \/ (IsFd(path, 1) /\ w.stdout)

os_path_isdir(path, w) == PyEq(path, "d")
os_path_isfile(path, w) == PyEq(path, "f") /\ w.fs.exists
os_path_exists(path, w) ==
    os_path_isdir(path, w) \/ os_path_isfile(path, w) \/ FdOpen(path, w)
os_path_getsize(path, w) ==
    CASE os_path_isfile(path, w) -> ToString(Len(w.fs.data))
      [] os_path_isdir(path, w) -> "<size of d>"
      [] OTHER -> "0"

\* f.read() of a file opened in text mode with newline=None: "\r\n" and "\r"
\* are read as "\n"
RECURSIVE UniversalNewlines(_)
UniversalNewlines(data) ==
    IF data = <<>> THEN <<>>
    ELSE IF data[1] = "\r"
    THEN <<"\n">> \o UniversalNewlines(
             IF Len(data) >= 2 /\ data[2] = "\n"
             THEN SubSeq(data, 3, Len(data)) ELSE Tail(data))
    ELSE <<data[1]>> \o UniversalNewlines(Tail(data))

FileError(m) == Err(<<"Error with file operation: ", m>>)
NotStr(content) == "write() argument must be str, not " \o content.t

\* with open(path, 'w', encoding='utf-8') as f: f.write(content)
\* open() creates or truncates before write() looks at content, and a
\* descriptor passed as path is closed when the with block is left.
WriteFile(path, content, w) ==
    LET done == Return(Ok(<<"Successfully wrote to ">> \o PyStr(path)), w)
        str == content.t = "str"
    IN  CASE PyEq(path, "f") ->
               IF str
               THEN [done EXCEPT !.w.fs = [exists |-> TRUE, data |-> content.v]]
               ELSE Return(FileError(NotStr(content)),
                           [w EXCEPT !.fs = [exists |-> TRUE, data |-> <<>>]])
          [] PyEq(path, "d") ->
               Return(FileError("[Errno 21] Is a directory: 'd'"), w)
          [] IsFd(path, 1) /\ w.stdout ->
               IF str
               THEN [done EXCEPT !.w.stdout = FALSE,
                                 !.w.injected = w.injected \/ content.v # <<>>]
               ELSE Return(FileError(NotStr(content)), [w EXCEPT !.stdout = FALSE])
          [] IsFd(path, 0) /\ w.stdin ->
               IF str /\ content.v = <<>>
               THEN [done EXCEPT !.w.stdin = FALSE]
               ELSE IF str
               THEN Return(FileError("[Errno 9] Bad file descriptor"),
                           [w EXCEPT !.stdin = FALSE])
               ELSE Return(FileError(NotStr(content)), [w EXCEPT !.stdin = FALSE])
          [] path.t = "int" ->
               Return(FileError("[Errno 9] Bad file descriptor"), w)
          [] OTHER ->
               Return(FileError("[Errno 2] No such file or directory"), w)

file_operations(arguments, w) ==
    IF arguments.t # "dict" THEN Raise(NoAttribute(arguments, "get"), w)
    ELSE
    LET operation == Get(arguments, "operation", S(<<>>))
        path == Get(arguments, "path", S(<<>>))
        content == Get(arguments, "content", S(<<>>))
        p == PyStr(path)
    IN  CASE PyEq(operation, "list") ->
               IF os_path_isdir(path, w)
               THEN Return(Ok(<<"Contents of ">> \o p \o <<":", "\n", "<entries>">>), w)
               ELSE Return(Ok(<<"Path ">> \o p \o <<" is not a directory">>), w)
          [] PyEq(operation, "read") ->
               IF os_path_isfile(path, w)
               THEN Return(Ok(<<"Contents of ">> \o p \o <<":", "\n">>
                              \o UniversalNewlines(w.fs.data)), w)
               ELSE Return(Ok(<<"File ">> \o p \o <<" not found">>), w)
          [] PyEq(operation, "write") -> WriteFile(path, content, w)
          [] PyEq(operation, "exists") ->
               Return(Ok(<<"Path ">> \o p \o
                         <<IF os_path_exists(path, w)
                           THEN " exists" ELSE " does not exist">>), w)
          [] PyEq(operation, "size") ->
               IF os_path_exists(path, w)
               THEN Return(Ok(<<"Size of ">> \o p
                              \o <<": ", os_path_getsize(path, w), " bytes">>), w)
               ELSE Return(Ok(<<"Path ">> \o p \o <<" does not exist">>), w)
          [] OTHER ->
               Return(Err(<<"Unknown operation: ">> \o PyStr(operation)), w)

(***************************************************************************)
(* current_time                                                            *)
(***************************************************************************)
FormatRequired == "Custom format string required for custom format type"

current_time(arguments, w) ==
    IF arguments.t # "dict" THEN Raise(NoAttribute(arguments, "get"), w)
    ELSE
    LET format_type == Get(arguments, "format", Lit("iso"))
        custom_format == Get(arguments, "custom_format", S(<<>>))
        time(result) == Return(Ok(<<"Current time: ", result>>), w)
    IN  CASE PyEq(format_type, "iso") -> time("<now.isoformat()>")
          [] PyEq(format_type, "human") -> time("<now, long form>")
          [] PyEq(format_type, "timestamp") -> time("<now, epoch seconds>")
          [] PyEq(format_type, "custom") ->
               IF Truthy(custom_format)
               THEN IF custom_format.t = "str"
                    THEN time("<now.strftime(custom_format)>")
                    ELSE Return(Err(<<"Error getting time: ",
                                      "strftime() argument 1 must be str, not "
                                      \o custom_format.t>>), w)
               ELSE time(FormatRequired)
          [] OTHER ->
               Return(Err(<<"Unknown format type: ">> \o PyStr(format_type)), w)

(***************************************************************************)
(* The registry and the dispatcher                                         *)
(***************************************************************************)
Descriptor(name, description, properties, required) ==
    [name |-> name, description |-> description,
     inputSchema |-> [type |-> "object", properties |-> properties,
                      required |-> required]]

\* self.tools as __init__ builds it, in insertion order; each entry is kept
\* under the key that is its name
ToolRegistry ==
    << Descriptor("text_transform",
                  "Transform text using various operations (uppercase, lowercase, reverse, etc.)",
                  <<"text", "operation">>, <<"text", "operation">>),
       Descriptor("calculate", "Perform mathematical calculations",
                  <<"expression">>, <<"expression">>),
       Descriptor("system_info", "Get system information",
                  <<"info_type">>, <<"info_type">>),
       Descriptor("file_operations", "Basic file operations (list, read, write)",
                  <<"operation", "path", "content">>, <<"operation", "path">>),
       Descriptor("current_time", "Get current date and time information",
                  <<"format", "timezone", "custom_format">>, <<"format">>) >>

\* the keys of a registry
Keys(tools) == {tools[i].name : i \in 1..Len(tools)}

\* tool_name in self.tools, for a hashable tool_name
InRegistry(tool_name, tools) ==
    tool_name.t = "str" /\ Len(tool_name.v) = 1 /\ tool_name.v[1] \in Keys(tools)

\* a slip: call_tool without its try/except
call_tool_NoCatch(tool_name, arguments, w, env) ==
    LET name == tool_name.v[1]
        r == CASE name = "text_transform" -> text_transform(arguments, w)
               [] name = "calculate" -> calculate(arguments, w, env)
               [] name = "system_info" -> system_info(arguments, w, env)
               [] name = "file_operations" -> file_operations(arguments, w)
               [] name = "current_time" -> current_time(arguments, w)
               [] OTHER -> Return(Err(<<"Tool not implemented: ", name>>), w)
    IN  [r EXCEPT !.tool = name, !.hraised = r.raised]

call_tool(tool_name, arguments, w, env) ==
    LET name == tool_name.v[1]
        r == CASE name = "text_transform" -> text_transform(arguments, w)
               [] name = "calculate" -> calculate(arguments, w, env)
               [] name = "system_info" -> system_info(arguments, w, env)
               [] name = "file_operations" -> file_operations(arguments, w)
               [] name = "current_time" -> current_time(arguments, w)
               [] OTHER -> Return(Err(<<"Tool not implemented: ", name>>), w)
    IN  IF r.raised
        THEN [Return(Err(<<"Error executing tool ", name, ": ", r.msg>>), r.w)
                EXCEPT !.tool = name, !.hraised = TRUE, !.msg = r.msg]
        ELSE [r EXCEPT !.tool = IF name \in Keys(ToolRegistry) THEN name ELSE "none"]


\* a slip: a listing that takes its entries out of the registry
tools_list_Destructive(w) ==
    Return([tools |-> w.tools], [w EXCEPT !.tools = Tail(w.tools)])

\* return {"tools": list(self.tools.values())}
tools_list(w) == Return([tools |-> w.tools], w)

handle_request(request, w, env) ==
    IF request.t # "dict" THEN Raise(NoAttribute(request, "get"), w)
    ELSE
    LET method == Get(request, "method", NullV)
        params == Get(request, "params", EmptyObj)
    IN  IF PyEq(method, "tools/list")
        THEN tools_list(w)
        ELSE IF PyEq(method, "tools/call")
        THEN IF params.t # "dict" THEN Raise(NoAttribute(params, "get"), w)
             ELSE LET tool_name == Get(params, "name", NullV)
                      arguments == Get(params, "arguments", EmptyObj)
                  IN  IF ~Hashable(tool_name)
                      THEN Raise("unhashable type: '" \o tool_name.t \o "'", w)
                      ELSE IF InRegistry(tool_name, w.tools)
                      THEN call_tool(tool_name, arguments, w, env)
                      ELSE Return(Err(<<"Unknown tool: ">> \o PyStr(tool_name)), w)
        ELSE Return(Err(<<"Unknown method: ">> \o PyStr(method)), w)

(***************************************************************************)
(* Input lines.  A line is garbage ("{not json"), blank, the literal NaN   *)
(* (no JSON text, yet json.loads takes it for a float), or a JSON text     *)
(* with the value v.                                                       *)
(***************************************************************************)
Strings(chars, n) == UNION {[1..k -> chars] : k \in 0..n}
Opt(values) == values \cup {Absent}
Lits(words) == {Lit(x) : x \in words}

TextSamples == {<<"a", "B">>, <<" ", "b", "A">>}
ExprChars == {"1", "+", "(", " ", ".", "a"}
Expressions == Strings(ExprChars, MaxExprLen)
Contents == {<<>>, <<"a">>, <<"\r">>, <<"a", "\r", "\n">>}
PathValues == Opt({Lit("f"), Lit("d"), N(0), N(1)})

TextTransformArgs ==
    {Obj([text |-> t, operation |-> o]) :
        t \in Opt({S(x) : x \in TextSamples} \cup {N(7), L}),
        o \in Opt(Lits({"uppercase", "lowercase", "reverse", "capitalize",
                        "title", "count_words", "count_chars", "bogus"}))}
CalculateArgs ==
    {Obj([expression |-> e]) :
        e \in Opt({S(x) : x \in Expressions} \cup {N(7), NullV})}
SystemInfoArgs ==
    {Obj([info_type |-> i]) :
        i \in Opt(Lits({"platform", "cpu", "memory", "disk", "network",
                        "processes", "uptime", "bogus"}))}
FileOperationsArgs ==
    {Obj([operation |-> Lit("write"), path |-> p, content |-> c]) :
        p \in PathValues, c \in Opt({S(x) : x \in Contents} \cup {N(7)})}
    \cup
    {Obj([operation |-> o, path |-> p, content |-> Absent]) :
        o \in Opt(Lits({"list", "read", "exists", "size", "bogus"})),
        p \in PathValues}
CurrentTimeArgs ==
    {Obj([format |-> f, custom_format |-> Absent]) :
        f \in Opt(Lits({"iso", "human", "timestamp", "custom", "bogus"}) \cup {N(7)})}
    \cup
    {Obj([format |-> Lit("custom"), custom_format |-> c]) :
        c \in {S(<<>>), Lit("%Y"), N(7), NullV}}

ArgsFor(name) ==
    CASE name = "text_transform" -> TextTransformArgs
      [] name = "calculate" -> CalculateArgs
      [] name = "system_info" -> SystemInfoArgs
      [] name = "file_operations" -> FileOperationsArgs
      [] name = "current_time" -> CurrentTimeArgs

CallParams ==
    UNION {{Obj([name |-> Lit(n), arguments |-> a]) :
               a \in ArgsFor(n) \cup {Absent, NullV}} : n \in Keys(ToolRegistry)}
    \cup
    {Obj([name |-> n, arguments |-> Absent]) :
        n \in {Lit("nope"), Absent, NullV, N(7), L}}

Requests ==
    {Obj([method |-> Lit("tools/list"), params |-> p]) : p \in {Absent, NullV}}
    \cup
    {Obj([method |-> m, params |-> Absent]) : m \in {Lit("bogus"), Absent}}
    \cup
    {Obj([method |-> Lit("tools/call"), params |-> p]) :
        p \in CallParams \cup {Absent, NullV}}

Lines ==
    {[k |-> "json", v |-> r] : r \in Requests \cup {L, N(7)}}
    \cup
    {[k |-> x, v |-> NullV] : x \in {"garbage", "blank", "NaN"}}

NoLine == [k |-> "none", v |-> NullV]

\* json.loads(line.strip()): ok is FALSE where it raises JSONDecodeError
json_loads(l) ==
    CASE l.k = "json" -> [ok |-> TRUE, value |-> l.v]
      [] l.k = "NaN" -> [ok |-> TRUE, value |-> [t |-> "float", v |-> 0]]
      [] OTHER -> [ok |-> FALSE, value |-> NullV]

(***************************************************************************)
(* The parts of a request, as handle_request takes them out of it.         *)
(***************************************************************************)
IsRequest(l, method) ==
    l.k = "json" /\ l.v.t = "dict" /\ PyEq(Get(l.v, "method", NullV), method)
ParamsOf(l) == Get(l.v, "params", EmptyObj)
NameOf(l) == Get(ParamsOf(l), "name", NullV)
ArgumentsOf(l) == Get(ParamsOf(l), "arguments", EmptyObj)
\* a tools/call of the registered tool `name` whose arguments are a mapping
IsCall(l, name) ==
    /\ IsRequest(l, "tools/call")
    /\ ParamsOf(l).t = "dict"
    /\ PyEq(NameOf(l), name)
    /\ ArgumentsOf(l).t = "dict"
Arg(l, key, default) == Get(ArgumentsOf(l), key, default)

(***************************************************************************)
(* State                                                                   *)
(***************************************************************************)
VARIABLES
    pc,          \* where run() is: "read", "write", "done", "crashed"
    line,        \* the line read by sys.stdin.readline(), NoLine between lines
    response,    \* the response about to be printed
    trace,       \* what the handling of the line went through
    nRead,       \* lines read so far
    nWritten,    \* response lines printed so far
    answered,    \* the number of the line the last printed response answers
    spurious,    \* responses printed for a failed readline()
    eof,         \* readline() returned the empty string
    tools,       \* self.tools
    fs,          \* the file "f"
    stdinOpen,   \* descriptor 0 is open
    stdoutOpen,  \* descriptor 1 is open
    injected,    \* stdout received text that is no response line
    lastWrite,   \* the path and content of the last write that reported success
    firstList    \* the first tools/list response printed

vars == <<pc, line, response, trace, nRead, nWritten, answered, spurious, eof,
          tools, fs, stdinOpen, stdoutOpen, injected, lastWrite, firstList>>

World == [tools |-> tools, fs |-> fs, stdin |-> stdinOpen,
          stdout |-> stdoutOpen, injected |-> injected]

NoTrace == [called |-> FALSE, raised |-> FALSE, tool |-> "none",
            hraised |-> FALSE, evaluated |-> FALSE, msg |-> ""]

InvalidJSONResponse == Err(<<"Invalid JSON request">>)
ServerError(m) == Err(<<"Server error: ", m>>)

NeverWritten == [has |-> FALSE, path |-> <<>>, data |-> <<>>]

\* What the host may answer while the line l is handled: whether eval()
\* returns (a calculate call), whether a host query raises (a system_info call)
Envs(l) ==
    [evalOk : IF IsCall(l, "calculate") THEN BOOLEAN ELSE {TRUE},
     hostFails : IF IsCall(l, "system_info") THEN BOOLEAN ELSE {FALSE}]

Init ==
    /\ pc = "read"
    /\ line = NoLine
    /\ response = NoResponse
    /\ trace = NoTrace
    /\ nRead = 0
    /\ nWritten = 0
    /\ answered = 0
    /\ spurious = 0
    /\ eof = FALSE
    /\ tools = ToolRegistry
    /\ fs \in {[exists |-> FALSE, data |-> <<>>]}
              \cup {[exists |-> TRUE, data |-> c] : c \in Contents}
    /\ stdinOpen = TRUE
    /\ stdoutOpen = TRUE
    /\ injected = FALSE
    /\ lastWrite = NeverWritten
    /\ firstList = NoResponse

(***************************************************************************)
(* run(): one action per step of an iteration of the loop                  *)
(***************************************************************************)
\* readline() returns '': if not line: break
ReadEOF ==
    /\ pc = "read"
    /\ stdinOpen
    /\ eof' = TRUE
    /\ pc' = "done"
    /\ UNCHANGED <<line, response, trace, nRead, nWritten, answered, spurious,
                   tools, fs, stdinOpen, stdoutOpen, injected, lastWrite,
                   firstList>>

\* readline() on the closed descriptor raises OSError: except Exception
ReadFails ==
    /\ pc = "read"
    /\ ~stdinOpen
    /\ spurious < MaxSpurious
    /\ spurious' = spurious + 1
    /\ response' = ServerError("[Errno 9] Bad file descriptor")
    /\ pc' = "write"
    /\ UNCHANGED <<line, trace, nRead, nWritten, answered, eof, tools, fs,
                   stdinOpen, stdoutOpen, injected, lastWrite, firstList>>

\* line = sys.stdin.readline() returns a line (from the pipe, or, once
\* descriptor 0 is closed, one the reader had buffered);
\* request = json.loads(line.strip()); response = await handle_request(request)
\* and the two except clauses that replace the response
ReadAndHandle ==
    /\ pc = "read"
    /\ nRead < MaxLines
    /\ nRead' = nRead + 1
    /\ pc' = "write"
    /\ \E l \in Lines :
         /\ line' = l
         /\ LET parsed == json_loads(l)
            IN  IF ~parsed.ok
                THEN /\ response' = InvalidJSONResponse
                     /\ trace' = NoTrace
                     /\ UNCHANGED <<tools, fs, stdinOpen, stdoutOpen, injected,
                                    lastWrite>>
                ELSE \E env \in Envs(l) :
                     LET r == handle_request(parsed.value, World, env)
                         resp == IF r.raised THEN ServerError(r.msg) ELSE r.response
                     IN  /\ response' = resp
                         /\ trace' = [called |-> TRUE, raised |-> r.raised,
                                      tool |-> r.tool, hraised |-> r.hraised,
                                      evaluated |-> r.evaluated, msg |-> r.msg]
                         /\ tools' = r.w.tools
                         /\ fs' = r.w.fs
                         /\ stdinOpen' = r.w.stdin
                         /\ stdoutOpen' = r.w.stdout
                         /\ injected' = r.w.injected
                         /\ lastWrite' =
                              IF /\ IsCall(l, "file_operations")
                                 /\ PyEq(Arg(l, "operation", S(<<>>)), "write")
                                 /\ ~IsErr(resp)
                              THEN [has |-> TRUE,
                                    path |-> PyStr(Arg(l, "path", S(<<>>))),
                                    data |-> Arg(l, "content", S(<<>>)).v]
                              ELSE lastWrite
    /\ UNCHANGED <<nWritten, answered, spurious, eof, firstList>>

\* print(json.dumps(response), flush=True)
WriteResponse ==
    /\ pc = "write"
    /\ stdoutOpen
    /\ nWritten' = nWritten + 1
    /\ answered' = IF line = NoLine THEN 0 ELSE nRead
    /\ line' = NoLine
    /\ response' = NoResponse
    /\ trace' = NoTrace
    /\ firstList' = IF IsRequest(line, "tools/list") /\ firstList = NoResponse
                    THEN response ELSE firstList
    /\ pc' = "read"
    /\ UNCHANGED <<nRead, spurious, eof, tools, fs, stdinOpen, stdoutOpen,
                   injected, lastWrite>>

\* print() on the closed descriptor raises OSError; the print() of the
\* except clause that catches it raises again, and that one leaves run()
PrintFails ==
    /\ pc = "write"
    /\ ~stdoutOpen
    /\ pc' = "crashed"
    /\ UNCHANGED <<line, response, trace, nRead, nWritten, answered, spurious,
                   eof, tools, fs, stdinOpen, stdoutOpen, injected, lastWrite,
                   firstList>>

Next ==
    \/ ReadAndHandle
    \/ ReadEOF
    \/ ReadFails
    \/ WriteResponse
    \/ PrintFails

Spec == Init /\ [][Next]_vars

(***************************************************************************)
(* The claims.  A response is judged in the state where run() is about to  *)
(* print it: pc = "write", with line the line it answers.                  *)
(***************************************************************************)
\* the line is a JSON text (RFC 8259)
IsValidJSON(l) == l.k = "json"

TextOf(r) == r.content[1].text

\* c occurs in the text t as a run of consecutive characters
Contains(t, c) ==
    \E i \in 0..(Len(t) - Len(c)) : SubSeq(t, i + 1, i + Len(c)) = c

\* a tools/call whose params are a mapping
IsToolsCall(l) == IsRequest(l, "tools/call") /\ ParamsOf(l).t = "dict"

\* C1: run() writes exactly one response line per input line read, the k-th
\* output line answers the k-th input line, and no line is read before the
\* response to the line before it has been written.
C1_OneResponsePerLine ==
    /\ pc # "crashed"
    /\ ~injected
    /\ pc \in {"read", "done"} => nWritten = nRead
    /\ pc = "write" => (line # NoLine /\ nWritten = nRead - 1)
    /\ nWritten > 0 => answered = nWritten

\* C2: every input line that is not valid JSON is answered with exactly the
\* response "Invalid JSON request" (isError true), handle_request is not
\* called for it, and the response is printed so that the loop reads on.
C2_InvalidJSONAnswered ==
    (pc = "write" /\ line # NoLine /\ ~IsValidJSON(line)) =>
        /\ response = InvalidJSONResponse
        /\ ~trace.called
        /\ stdoutOpen

\* C3: the loop stops only when readline() has reported the end of the
\* input: no line makes it stop or lets a failure leave run().
C3_StopsOnlyAtEOF ==
    pc \in {"done", "crashed"} => (pc = "done" /\ eof)

\* C4: a tools/call whose params.name is not a key of the registry (an
\* unregistered string, a missing name, a non-string value) is answered with
\* isError true and the text "Unknown tool: <name>", and no handler is invoked.
C4_UnknownToolReported ==
    (pc = "write" /\ IsToolsCall(line) /\ ~InRegistry(NameOf(line), ToolRegistry)) =>
        /\ response = Err(<<"Unknown tool: ">> \o PyStr(NameOf(line)))
        /\ trace.tool = "none"

\* C5: for a tools/call with a registered name, whatever the arguments are,
\* handle_request does not raise: the handler is invoked, and a failure
\* that leaves it comes back as "Error executing tool <name>: <message>"
\* with isError true.
C5_CallToolIsErrorBoundary ==
    (pc = "write" /\ IsToolsCall(line) /\ InRegistry(NameOf(line), ToolRegistry)) =>
        /\ ~trace.raised
        /\ trace.tool = NameOf(line).v[1]
        /\ trace.hraised =>
             response = Err(<<"Error executing tool ", NameOf(line).v[1], ": ",
                              trace.msg>>)

\* a handler raised on an argument of the wrong type inside a mapping
C5_Witness ==
    /\ pc = "write"
    /\ IsCall(line, "text_transform")
    /\ Arg(line, "text", S(<<>>)) = N(7)
    /\ trace.hraised

\* the content of r is a non-empty sequence of items of type "text"
NonEmptyTextContent(r) ==
    /\ "content" \in DOMAIN r
    /\ Len(r.content) >= 1
    /\ \A i \in 1..Len(r.content) : r.content[i].type = "text"

FailureReports ==
    {"Invalid JSON request", "Server error: ", "Unknown tool: ",
     "Unknown method: ", "Error executing tool ", "Tool not implemented: ",
     "Unknown operation: ", InvalidExpression, "Error calculating '",
     "Unknown info type: ", "Error getting system info: ",
     "Error with file operation: ", "Unknown format type: ",
     "Error getting time: "}

\* the response r to the line l says that what l asked for was not done
NotCarriedOut(l, r) ==
    LET t == TextOf(r)
    IN  /\ t.t = "str"
        /\ Len(t.v) >= 1
        /\ \/ t.v[1] \in FailureReports
           \/ t.v[Len(t.v)] \in {" not found", " is not a directory"}
           \/ /\ IsCall(l, "file_operations")
              /\ PyEq(Arg(l, "operation", S(<<>>)), "size")
              /\ t.v[Len(t.v)] = " does not exist"
           \/ t.v = <<"Current time: ", FormatRequired>>

ClaimedChars == Digits \cup Whitespace \cup {"(", ")"} \cup {"+", "-", "*", "/"}

\* a calculate call whose expression is a string (a missing one is "")
IsCalculate(l) ==
    IsCall(l, "calculate") /\ Arg(l, "expression", S(<<>>)).t = "str"

GatedBy(chars) ==
    (pc = "write" /\ IsCalculate(line)) =>
        LET e == Arg(line, "expression", S(<<>>)).v
            foreign == \E i \in 1..Len(e) : e[i] \notin chars
        IN  /\ trace.evaluated => ~foreign
            /\ (e = <<>> \/ foreign) =>
                 /\ response = Err(<<InvalidExpression>>)
                 /\ ~trace.evaluated

\* C7, as stated: calculate evaluates an expression only if each of its
\* characters is a digit, whitespace, a parenthesis or one of + - * /; any
\* other expression, and the empty one, gets "Invalid expression" with
\* isError true and is not evaluated.
C7_OnlyListedCharsEvaluated == GatedBy(ClaimedChars)

\* C7, amended: the same with the period among the characters let through.
C7_OnlyListedCharsOrPeriodEvaluated == GatedBy(ClaimedChars \cup {"."})

\* an expression with a letter after a digit is turned down unevaluated
C7_Witness ==
    /\ pc = "write"
    /\ IsCalculate(line)
    /\ Arg(line, "expression", S(<<>>)).v = <<"1", "a">>
    /\ response = Err(<<InvalidExpression>>)

\* C8: a read of a path returns the content of the most recent successful
\* write to that path: the response is no error, its text contains that
\* content, and nothing of an earlier content is left beside it.
C8_ReadReturnsLastWrite ==
    ( /\ pc = "write"
      /\ IsCall(line, "file_operations")
      /\ PyEq(Arg(line, "operation", S(<<>>)), "read")
      /\ lastWrite.has
      /\ lastWrite.path = PyStr(Arg(line, "path", S(<<>>))) ) =>
        /\ ~IsErr(response)
        /\ TextOf(response).t = "str"
        /\ Contains(TextOf(response).v, lastWrite.data)
        /\ Len(TextOf(response).v) <= Len(lastWrite.path) + 3 + Len(lastWrite.data)

\* the names of the descriptors in a listing are pairwise distinct
DistinctNames(listing) ==
    \A i, j \in 1..Len(listing) : listing[i].name = listing[j].name => i = j

\* C9: no request changes the registry: a tools/list response holds as many
\* descriptors as the registry has entries (five), under pairwise distinct
\* names, and equals the first tools/list response.
C9_RegistryFixed ==
    /\ tools = ToolRegistry
    /\ (pc = "write" /\ IsRequest(line, "tools/list")) =>
         /\ "tools" \in DOMAIN response
         /\ Len(response.tools) = Len(ToolRegistry)
         /\ Len(response.tools) = 5
         /\ DistinctNames(response.tools)
         /\ firstList # NoResponse => response = firstList

\* a tools/list after an earlier one and after a write that took effect
C9_Witness ==
    /\ pc = "write"
    /\ IsRequest(line, "tools/list")
    /\ firstList # NoResponse
    /\ lastWrite.has

\* a current_time call with format "custom" and no or an empty custom_format
IsCustomWithoutFormat(l) ==
    /\ IsCall(l, "current_time")
    /\ PyEq(Arg(l, "format", Lit("iso")), "custom")
    /\ Arg(l, "custom_format", S(<<>>)) = S(<<>>)

\* C10: current_time with format "custom" and an empty or missing
\* custom_format answers, without isError, that a format string is required.
C10_FormatRequiredIsNoError ==
    (pc = "write" /\ IsCustomWithoutFormat(line)) =>
        /\ ~IsErr(response)
        /\ response = Ok(<<"Current time: ", FormatRequired>>)

\* the empty custom_format given outright
C10_Witness ==
    /\ pc = "write"
    /\ IsCustomWithoutFormat(line)
    /\ "custom_format" \in DOMAIN ArgumentsOf(line).v
    /\ ArgumentsOf(line).v["custom_format"] = S(<<>>)

====
